---- MODULE Spec2Model ----
(***************************************************************************)
(* TikTok live chat relay: the room lifecycle (TikTokManager.connect /     *)
(* disconnect with the in-flight promise map), the chat dedup cache        *)
(* (shouldEmitChat), the two subscriber registries of server.ts and the    *)
(* fan-out (broadcastEvent).                                               *)
(*                                                                         *)
(* Node runs one macrotask at a time and drains the microtask queue after  *)
(* it, so one action is one macrotask (an HTTP request, a socket event, an *)
(* upstream promise settling, an upstream event) together with the promise *)
(* continuations it makes runnable.                                        *)
(***************************************************************************)
EXTENDS Integers, Sequences, FiniteSets, TLC

\* ------------------------------------------------------------------ bounds
MaxSubs == 2          \* subscriber handles (a closed one is reused)
MaxClients == 2       \* WebcastPushConnection objects alive at once
MaxPending == 2       \* disconnect() calls suspended on one upstream client
MaxKeys == 2          \* distinct chat dedup keys
MaxElapsed == 121000  \* ms the clock may advance
StartTime == 1        \* Date.now() at start (always positive)

Rooms == {"alice", "bob"}
Subs == 1..MaxSubs
Clients == 1..MaxClients
Keys == 1..MaxKeys
NoKey == 0                         \* computeChatKey returned null
EventTypes == {"chat", "gift"}     \* one deduplicated, one passed through
TickSteps == {119000, 120000, 121000}

\* ------------------------------------------------------- program constants
ttlMs == 2 * 60 * 1000
CleanupThreshold == 1000
CleanupTarget == 800
\* the cleanup's sizes scaled down, and the keys that overflow a map of that size
SmallThreshold == 3
SmallTarget == 2
EvictKeys == 1..(SmallThreshold + 2)
EvictRoom == "alice"

VARIABLES
  connections,          \* TikTokManager.connections: room -> client
  connectingPromises,   \* TikTokManager.connectingPromises: room -> client whose attempt the promise is
  recentChatKeysByRoom, \* room -> sequence of [key, ts] in insertion order
  upstream,             \* each WebcastPushConnection object: its state and its room
  pendingDisc,          \* per client: disconnect() calls awaiting conn.disconnect() on it
  wsClientsByRoom,      \* room -> set of sockets
  sseClientsByRoom,     \* room -> set of SSE clients
  subs,                 \* per subscriber handle: readyState, transport, room, awaited attempt
  now,                  \* Date.now()
  emitted,              \* envelopes passed to emit('event') by the last step
  wire,                 \* per subscriber: what the last step wrote to it
  threw,                \* subscribers whose send/write threw in the last step
  outcome               \* how the manager call(s) settled by the last step ended

vars == <<connections, connectingPromises, recentChatKeysByRoom, upstream, pendingDisc,
          wsClientsByRoom, sseClientsByRoom, subs, now, emitted, wire, threw, outcome>>

\* -------------------------------------------------------------- Map helpers
EmptyMap == [x \in {} |-> 0]
Put(f, k, v) == [x \in (DOMAIN f) \cup {k} |-> IF x = k THEN v ELSE f[x]]
Del(f, k) == [x \in (DOMAIN f) \ {k} |-> f[x]]
Members(reg, r) == IF r \in DOMAIN reg THEN reg[r] ELSE {}

NoClient == [st |-> "free", room |-> "alice"]
NoSub == [st |-> "none", kind |-> "sse", room |-> "alice", awaits |-> 0]
Silent == [s \in Subs |-> <<>>]

\* ------------------------------------------------------------ dedup cache
\* the cleanup loop deleting every entry it visits, whatever its age
RECURSIVE ScanAnyAge(_, _, _, _)
ScanAnyAge(kept, rest, t, target) ==
  IF rest = <<>> THEN kept
  ELSE IF Len(kept) + Len(Tail(rest)) <= target
       THEN kept \o Tail(rest)
       ELSE ScanAnyAge(kept, Tail(rest), t, target)

\* the cleanup loop over the map in insertion order: kept is what the entries
\* visited so far left behind, rest the entries still to visit
RECURSIVE Scan(_, _, _, _)
Scan(kept, rest, t, target) ==
  IF rest = <<>> THEN kept
  ELSE LET e == Head(rest)
           k2 == IF t - e.ts >= ttlMs THEN kept ELSE Append(kept, e)
       IN IF Len(k2) + Len(Tail(rest)) <= target
          THEN k2 \o Tail(rest)
          ELSE Scan(k2, Tail(rest), t, target)

IndexOf(map, key) ==
  IF \E i \in 1..Len(map) : map[i].key = key
  THEN CHOOSE i \in 1..Len(map) : map[i].key = key
  ELSE 0

\* shouldEmitChat with the window closed at its end (<= instead of <)
shouldEmitChatInclusive(room, key) ==
  LET base == IF room \in DOMAIN recentChatKeysByRoom
              THEN recentChatKeysByRoom
              ELSE Put(recentChatKeysByRoom, room, <<>>)
      map == base[room]
      i == IndexOf(map, key)
  IN IF i # 0 /\ map[i].ts # 0 /\ now - map[i].ts <= ttlMs
     THEN [ret |-> FALSE, cache |-> base]
     ELSE LET set == IF i # 0 THEN [map EXCEPT ![i].ts = now]
                     ELSE Append(map, [key |-> key, ts |-> now])
          IN [ret |-> TRUE, cache |-> [base EXCEPT ![room] = set]]

\* shouldEmitChat with the two sizes of its cleanup (`> 1000`, `<= 800`) named
shouldEmitChatAt(room, key, threshold, target) ==
  LET base == IF room \in DOMAIN recentChatKeysByRoom
              THEN recentChatKeysByRoom
              ELSE Put(recentChatKeysByRoom, room, <<>>)
      map == base[room]
      i == IndexOf(map, key)
  IN IF i # 0 /\ map[i].ts # 0 /\ now - map[i].ts < ttlMs
     THEN [ret |-> FALSE, cache |-> base]
     ELSE LET set == IF i # 0 THEN [map EXCEPT ![i].ts = now]
                     ELSE Append(map, [key |-> key, ts |-> now])
              cleaned == IF Len(set) > threshold THEN Scan(<<>>, set, now, target) ELSE set
          IN [ret |-> TRUE, cache |-> [base EXCEPT ![room] = cleaned]]

shouldEmitChat(room, key) == shouldEmitChatAt(room, key, CleanupThreshold, CleanupTarget)

\* ---------------------------------------------------------------- fan-out
Envelope(type, room) == [type |-> type, room |-> room, timestamp |-> now]

\* the subscribers on which broadcastEvent calls send / write
Attempted(evts, wsReg, sseReg, st) ==
  IF evts = <<>> THEN {}
  ELSE {s \in Members(wsReg, evts[1].room) : st[s].st = "open"}
       \cup Members(sseReg, evts[1].room)

\* broadcastEvent without the per-subscriber try/catch: a throwing send ends the
\* loop (sockets first, then SSE clients, each in registration order)
broadcastEventAborting(evts, wsReg, sseReg, st, F) ==
  LET rank(s) == IF st[s].kind = "ws" THEN s ELSE MaxSubs + s
  IN [s \in Subs |-> IF /\ s \in Attempted(evts, wsReg, sseReg, st)
                        /\ \A f \in F : rank(s) < rank(f)
                     THEN <<evts[1].type>> ELSE <<>>]

\* broadcastEvent writing to the sockets only, the SSE writes left for a later turn
broadcastEventDeferSse(evts, wsReg, sseReg, st, F) ==
  [s \in Subs |-> IF s \in Attempted(evts, wsReg, sseReg, st) \ F /\ st[s].kind = "ws"
                  THEN <<evts[1].type>> ELSE <<>>]

\* broadcastEvent looking through the registries of every room, not only evt.room's
broadcastEventAllRooms(evts, wsReg, sseReg, st, F) ==
  [s \in Subs |-> IF /\ evts # <<>>
                     /\ s \notin F
                     /\ \E r \in Rooms : \/ s \in Members(sseReg, r)
                                         \/ s \in Members(wsReg, r) /\ st[s].st = "open"
                  THEN <<evts[1].type>> ELSE <<>>]

\* what each subscriber gets from broadcasting the (at most one) envelope, the
\* sends to F throwing
broadcastEvent(evts, wsReg, sseReg, st, F) ==
  [s \in Subs |-> IF s \in Attempted(evts, wsReg, sseReg, st) \ F
                  THEN <<evts[1].type>> ELSE <<>>]

\* ------------------------------------------------------- TikTokManager.connect
FreeClients == {c \in Clients : upstream[c].st = "free"}
NewClient == CHOOSE c \in FreeClients : \A d \in FreeClients : c <= d
StartsAttempt(r) == r \notin DOMAIN connections /\ r \notin DOMAIN connectingPromises
CanCall(r) == StartsAttempt(r) => FreeClients # {}

\* connect without the in-flight check (every caller starts its own attempt)
connectNoCoalesce(r, o) ==
  IF r \in DOMAIN connections
  THEN [res |-> "resolved", client |-> 0, promises |-> connectingPromises,
        up |-> upstream, evts |-> <<>>]
  ELSE IF FreeClients = {}
  THEN [res |-> "await", client |-> connectingPromises[r], promises |-> connectingPromises,
        up |-> upstream, evts |-> <<>>]
  ELSE [res |-> "await", client |-> NewClient,
        promises |-> Put(connectingPromises, r, NewClient),
        up |-> [upstream EXCEPT ![NewClient] = [st |-> "connecting", room |-> r]],
        evts |-> <<>>]

\* connect without the already-connected check
connectNoActiveCheck(r, o) ==
  IF r \in DOMAIN connectingPromises \/ FreeClients = {}
  THEN [res |-> IF r \in DOMAIN connectingPromises THEN "await" ELSE "resolved",
        client |-> IF r \in DOMAIN connectingPromises THEN connectingPromises[r] ELSE 0,
        promises |-> connectingPromises, up |-> upstream, evts |-> <<>>]
  ELSE [res |-> "await", client |-> NewClient,
        promises |-> Put(connectingPromises, r, NewClient),
        up |-> [upstream EXCEPT ![NewClient] = [st |-> "connecting", room |-> r]],
        evts |-> <<>>]

\* the call up to its first suspension; o is what connection.connect() does when
\* it is invoked: "pending" (returns a promise) or "throws"
connect(r, o) ==
  IF r \in DOMAIN connections
  THEN [res |-> "resolved", client |-> 0, promises |-> connectingPromises,
        up |-> upstream, evts |-> <<>>]
  ELSE IF r \in DOMAIN connectingPromises
  THEN [res |-> IF upstream[connectingPromises[r]].st = "failed" THEN "rejected" ELSE "await",
        client |-> connectingPromises[r], promises |-> connectingPromises,
        up |-> upstream, evts |-> <<>>]
  ELSE IF o = "pending"
  THEN [res |-> "await", client |-> NewClient,
        promises |-> Put(connectingPromises, r, NewClient),
        up |-> [upstream EXCEPT ![NewClient] = [st |-> "connecting", room |-> r]],
        evts |-> <<>>]
  ELSE \* catch: emit error, reject; finally: delete; and only then line 92 sets the promise
       [res |-> "rejected", client |-> NewClient,
        promises |-> Put(Del(connectingPromises, r), r, NewClient),
        up |-> [upstream EXCEPT ![NewClient] = [st |-> "failed", room |-> r]],
        evts |-> <<Envelope("error", r)>>]

\* --------------------------------------------------- TikTokManager.disconnect
\* disconnect that falls back on the client of the in-flight attempt
disconnectInFlight(r) ==
  IF r \in DOMAIN connections
  THEN [up |-> [upstream EXCEPT ![connections[r]].st = "disconnecting"],
        pend |-> [pendingDisc EXCEPT ![connections[r]] = @ + 1]]
  ELSE IF r \in DOMAIN connectingPromises
  THEN [up |-> upstream,
        pend |-> [pendingDisc EXCEPT ![connectingPromises[r]] = @ + 1]]
  ELSE [up |-> upstream, pend |-> pendingDisc]

\* the call up to its suspension on conn.disconnect()
disconnect(r) ==
  IF r \notin DOMAIN connections
  THEN [up |-> upstream, pend |-> pendingDisc]
  ELSE [up |-> [upstream EXCEPT ![connections[r]].st = "disconnecting"],
        pend |-> [pendingDisc EXCEPT ![connections[r]] = @ + 1]]

\* TikTokManager.getStatus().rooms
getStatus == DOMAIN connections

CanDisconnect(r) == r \in DOMAIN connections => pendingDisc[connections[r]] < MaxPending

\* -------------------------------------------------------------------- Init
Init ==
  /\ connections = EmptyMap
  /\ connectingPromises = EmptyMap
  /\ recentChatKeysByRoom = EmptyMap
  /\ upstream = [c \in Clients |-> NoClient]
  /\ pendingDisc = [c \in Clients |-> 0]
  /\ wsClientsByRoom = EmptyMap
  /\ sseClientsByRoom = EmptyMap
  /\ subs = [s \in Subs |-> NoSub]
  /\ now = StartTime
  /\ emitted = <<>>
  /\ wire = Silent
  /\ threw = {}
  /\ outcome = "none"

NoLog == emitted' = <<>> /\ wire' = Silent /\ threw' = {}

\* ------------------------------------------------------ subscribers joining
\* GET /:username
SseOpen(s, r, o) ==
  /\ subs[s].st = "none"
  /\ CanCall(r)
  /\ LET reg == Put(sseClientsByRoom, r, Members(sseClientsByRoom, r) \cup {s})
         me == [st |-> "open", kind |-> "sse", room |-> r, awaits |-> 0]
         st1 == [subs EXCEPT ![s] = me]
         k == connect(r, o)
     IN \E F \in SUBSET Attempted(k.evts, wsClientsByRoom, reg, st1) :
          /\ sseClientsByRoom' = reg
          /\ connectingPromises' = k.promises
          /\ upstream' = k.up
          /\ subs' = [st1 EXCEPT ![s].awaits = IF k.res = "await" THEN k.client ELSE 0]
          /\ emitted' = k.evts
          /\ threw' = F
          /\ wire' = [x \in Subs |->
                        (IF x = s THEN <<":ok">> ELSE <<>>)
                        \o broadcastEvent(k.evts, wsClientsByRoom, reg, st1, F)[x]
                        \o (IF x = s /\ k.res = "rejected" THEN <<"connect_failed">> ELSE <<>>)]
          /\ outcome' = IF k.res = "await" THEN "none" ELSE k.res
          /\ UNCHANGED <<connections, recentChatKeysByRoom, pendingDisc, wsClientsByRoom, now>>

\* wss.on('connection')
WsOpen(s, r, o) ==
  /\ subs[s].st = "none"
  /\ CanCall(r)
  /\ LET reg == Put(wsClientsByRoom, r, Members(wsClientsByRoom, r) \cup {s})
         me == [st |-> "open", kind |-> "ws", room |-> r, awaits |-> 0]
         st1 == [subs EXCEPT ![s] = me]
         k == connect(r, o)
     IN \E F \in SUBSET Attempted(k.evts, reg, sseClientsByRoom, st1) :
          /\ wsClientsByRoom' = reg
          /\ connectingPromises' = k.promises
          /\ upstream' = k.up
          /\ subs' = [st1 EXCEPT ![s].awaits = IF k.res = "await" THEN k.client ELSE 0,
                                 ![s].st = IF k.res = "rejected" THEN "closing" ELSE "open"]
          /\ emitted' = k.evts
          /\ threw' = F
          /\ wire' = broadcastEvent(k.evts, reg, sseClientsByRoom, st1, F)
          /\ outcome' = IF k.res = "await" THEN "none" ELSE k.res
          /\ UNCHANGED <<connections, recentChatKeysByRoom, pendingDisc, sseClientsByRoom, now>>

\* ------------------------------------------------------ subscribers leaving
Departed(sub) == IF sub.awaits # 0 THEN [sub EXCEPT !.st = "gone"] ELSE NoSub

\* req.on('close')
SseClose(s) ==
  /\ subs[s].st = "open" /\ subs[s].kind = "sse"
  /\ LET r == subs[s].room
         left == Members(sseClientsByRoom, r) \ {s}
         last == left = {} /\ Members(wsClientsByRoom, r) = {}
         d == IF last THEN disconnect(r) ELSE [up |-> upstream, pend |-> pendingDisc]
     IN /\ last => CanDisconnect(r)
        /\ sseClientsByRoom' = IF left = {} THEN Del(sseClientsByRoom, r)
                               ELSE Put(sseClientsByRoom, r, left)
        /\ upstream' = d.up
        /\ pendingDisc' = d.pend
        /\ subs' = [subs EXCEPT ![s] = Departed(@)]
        /\ outcome' = IF last /\ r \notin DOMAIN connections THEN "resolved" ELSE "none"
        /\ NoLog
        /\ UNCHANGED <<connections, connectingPromises, recentChatKeysByRoom,
                       wsClientsByRoom, now>>

\* ws.on('close') leaving the room's emptied set in the map
WsCloseKeepsKey(s) ==
  /\ subs[s].st \in {"open", "closing"} /\ subs[s].kind = "ws"
  /\ LET r == subs[s].room
         left == Members(wsClientsByRoom, r) \ {s}
         last == left = {} /\ Members(sseClientsByRoom, r) = {}
         d == IF last THEN disconnect(r) ELSE [up |-> upstream, pend |-> pendingDisc]
     IN /\ last => CanDisconnect(r)
        /\ wsClientsByRoom' = Put(wsClientsByRoom, r, left)
        /\ upstream' = d.up
        /\ pendingDisc' = d.pend
        /\ subs' = [subs EXCEPT ![s] = Departed(@)]
        /\ outcome' = IF last /\ r \notin DOMAIN connections THEN "resolved" ELSE "none"
        /\ NoLog
        /\ UNCHANGED <<connections, connectingPromises, recentChatKeysByRoom,
                       sseClientsByRoom, now>>

\* ws.on('close')
WsClose(s) ==
  /\ subs[s].st \in {"open", "closing"} /\ subs[s].kind = "ws"
  /\ LET r == subs[s].room
         left == Members(wsClientsByRoom, r) \ {s}
         last == left = {} /\ Members(sseClientsByRoom, r) = {}
         d == IF last THEN disconnect(r) ELSE [up |-> upstream, pend |-> pendingDisc]
     IN /\ last => CanDisconnect(r)
        /\ wsClientsByRoom' = IF left = {} THEN Del(wsClientsByRoom, r)
                              ELSE Put(wsClientsByRoom, r, left)
        /\ upstream' = d.up
        /\ pendingDisc' = d.pend
        /\ subs' = [subs EXCEPT ![s] = Departed(@)]
        /\ outcome' = IF last /\ r \notin DOMAIN connections THEN "resolved" ELSE "none"
        /\ NoLog
        /\ UNCHANGED <<connections, connectingPromises, recentChatKeysByRoom,
                       sseClientsByRoom, now>>

\* the peer starts closing its socket: readyState leaves OPEN before 'close' fires
WsPeerClosing(s) ==
  /\ subs[s].st = "open" /\ subs[s].kind = "ws"
  /\ subs' = [subs EXCEPT ![s].st = "closing"]
  /\ outcome' = "none"
  /\ NoLog
  /\ UNCHANGED <<connections, connectingPromises, recentChatKeysByRoom, upstream,
                 pendingDisc, wsClientsByRoom, sseClientsByRoom, now>>

\* -------------------------------------------------------- control endpoints
\* POST /connect
ControlConnect(r, o) ==
  /\ CanCall(r)
  /\ LET k == connect(r, o)
     IN \E F \in SUBSET Attempted(k.evts, wsClientsByRoom, sseClientsByRoom, subs) :
          /\ connectingPromises' = k.promises
          /\ upstream' = k.up
          /\ emitted' = k.evts
          /\ threw' = F
          /\ wire' = broadcastEvent(k.evts, wsClientsByRoom, sseClientsByRoom, subs, F)
          /\ outcome' = IF k.res = "await" THEN "none" ELSE k.res
          /\ UNCHANGED <<connections, recentChatKeysByRoom, pendingDisc, wsClientsByRoom,
                         sseClientsByRoom, subs, now>>

\* POST /disconnect
ControlDisconnect(r) ==
  /\ CanDisconnect(r)
  /\ upstream' = disconnect(r).up
  /\ pendingDisc' = disconnect(r).pend
  /\ outcome' = IF r \notin DOMAIN connections THEN "resolved" ELSE "none"
  /\ NoLog
  /\ UNCHANGED <<connections, connectingPromises, recentChatKeysByRoom, wsClientsByRoom,
                 sseClientsByRoom, subs, now>>

\* ------------------------------------------------- upstream promises settle
Waiting(c) == {s \in Subs : subs[s].st # "none" /\ subs[s].awaits = c}

\* a caller's continuation after `await manager.connect(...)`
Continue(sub, ok) ==
  IF sub.st = "gone" THEN NoSub
  ELSE [sub EXCEPT !.awaits = 0,
                   !.st = IF ~ok /\ sub.kind = "ws" THEN "closing" ELSE @]

\* the attempt settling without the finally block's delete on success
ConnectSettleKeepsMarker(r, ok) ==
  /\ r \in DOMAIN connectingPromises
  /\ upstream[connectingPromises[r]].st = "connecting"
  /\ LET c == connectingPromises[r]
         evts == IF ok THEN <<>> ELSE <<Envelope("error", r)>>
     IN \E F \in SUBSET Attempted(evts, wsClientsByRoom, sseClientsByRoom, subs) :
          /\ connections' = IF ok THEN Put(connections, r, c) ELSE connections
          /\ connectingPromises' = IF ok THEN connectingPromises
                                   ELSE Del(connectingPromises, r)
          /\ upstream' = [upstream EXCEPT ![c] = IF ok THEN [@ EXCEPT !.st = "connected"]
                                                   ELSE NoClient]
          /\ subs' = [s \in Subs |-> IF s \in Waiting(c) THEN Continue(subs[s], ok)
                                     ELSE subs[s]]
          /\ emitted' = evts
          /\ threw' = F
          /\ wire' = [s \in Subs |->
                        broadcastEvent(evts, wsClientsByRoom, sseClientsByRoom, subs, F)[s]
                        \o (IF ~ok /\ s \in Waiting(c) /\ subs[s].kind = "sse"
                               /\ subs[s].st = "open"
                            THEN <<"connect_failed">> ELSE <<>>)]
          /\ outcome' = IF ok THEN "resolved" ELSE "rejected"
          /\ UNCHANGED <<recentChatKeysByRoom, pendingDisc, wsClientsByRoom,
                         sseClientsByRoom, now>>

\* `await connection.connect()` resumes: lines 80-88, then every awaiting caller
ConnectSettle(r, ok) ==
  /\ r \in DOMAIN connectingPromises
  /\ upstream[connectingPromises[r]].st = "connecting"
  /\ LET c == connectingPromises[r]
         evts == IF ok THEN <<>> ELSE <<Envelope("error", r)>>
     IN \E F \in SUBSET Attempted(evts, wsClientsByRoom, sseClientsByRoom, subs) :
          /\ connections' = IF ok THEN Put(connections, r, c) ELSE connections
          /\ connectingPromises' = Del(connectingPromises, r)
          /\ upstream' = [upstream EXCEPT ![c] = IF ok THEN [@ EXCEPT !.st = "connected"]
                                                   ELSE NoClient]
          /\ subs' = [s \in Subs |-> IF s \in Waiting(c) THEN Continue(subs[s], ok)
                                     ELSE subs[s]]
          /\ emitted' = evts
          /\ threw' = F
          /\ wire' = [s \in Subs |->
                        broadcastEvent(evts, wsClientsByRoom, sseClientsByRoom, subs, F)[s]
                        \o (IF ~ok /\ s \in Waiting(c) /\ subs[s].kind = "sse"
                               /\ subs[s].st = "open"
                            THEN <<"connect_failed">> ELSE <<>>)]
          /\ outcome' = IF ok THEN "resolved" ELSE "rejected"
          /\ UNCHANGED <<recentChatKeysByRoom, pendingDisc, wsClientsByRoom,
                         sseClientsByRoom, now>>

\* disconnect() cleaning up only when conn.disconnect() succeeded (no finally)
DisconnectSettleNoFinally(c, ok) ==
  /\ pendingDisc[c] > 0
  /\ LET r == upstream[c].room
         evts == IF ok THEN <<Envelope("disconnected", r)>> ELSE <<>>
     IN \E F \in SUBSET Attempted(evts, wsClientsByRoom, sseClientsByRoom, subs) :
          /\ connections' = IF ok THEN Del(connections, r) ELSE connections
          /\ pendingDisc' = [pendingDisc EXCEPT ![c] = @ - 1]
          /\ upstream' = IF pendingDisc[c] = 1
                         THEN [upstream EXCEPT ![c] = NoClient] ELSE upstream
          /\ emitted' = evts
          /\ threw' = F
          /\ wire' = broadcastEvent(evts, wsClientsByRoom, sseClientsByRoom, subs, F)
          /\ outcome' = IF ok THEN "resolved" ELSE "rejected"
          /\ UNCHANGED <<connectingPromises, recentChatKeysByRoom, wsClientsByRoom,
                         sseClientsByRoom, subs, now>>

\* `await conn.disconnect()` resumes in one suspended disconnect() call: the finally block
DisconnectSettle(c, ok) ==
  /\ pendingDisc[c] > 0
  /\ LET r == upstream[c].room
         evts == <<Envelope("disconnected", r)>>
     IN \E F \in SUBSET Attempted(evts, wsClientsByRoom, sseClientsByRoom, subs) :
          /\ connections' = Del(connections, r)
          /\ pendingDisc' = [pendingDisc EXCEPT ![c] = @ - 1]
          /\ upstream' = IF pendingDisc[c] = 1
                         THEN [upstream EXCEPT ![c] = NoClient] ELSE upstream
          /\ emitted' = evts
          /\ threw' = F
          /\ wire' = broadcastEvent(evts, wsClientsByRoom, sseClientsByRoom, subs, F)
          /\ outcome' = IF ok THEN "resolved" ELSE "rejected"
          /\ UNCHANGED <<connectingPromises, recentChatKeysByRoom, wsClientsByRoom,
                         sseClientsByRoom, subs, now>>

\* ----------------------------------------------------------- upstream events
Emitting(c) == upstream[c].st \in {"connecting", "connected", "disconnecting"}

\* relay deduplicating every event whose payload yields a key, whatever its type
relayDedupAll(r, type, key) ==
  LET dedup == key # NoKey
      d == shouldEmitChat(r, key)
  IN [cache |-> IF dedup THEN d.cache ELSE recentChatKeysByRoom,
      evts |-> IF dedup /\ ~d.ret THEN <<>> ELSE <<Envelope(type, r)>>]

\* relay(type)(payload); key is what computeChatKey derives from the payload
relay(r, type, key) ==
  LET dedup == type = "chat" /\ key # NoKey
      d == shouldEmitChat(r, key)
  IN [cache |-> IF dedup THEN d.cache ELSE recentChatKeysByRoom,
      evts |-> IF dedup /\ ~d.ret THEN <<>> ELSE <<Envelope(type, r)>>]

UpstreamEvent(c, type, key) ==
  /\ Emitting(c)
  /\ LET k == relay(upstream[c].room, type, key)
     IN \E F \in SUBSET Attempted(k.evts, wsClientsByRoom, sseClientsByRoom, subs) :
          /\ recentChatKeysByRoom' = k.cache
          /\ emitted' = k.evts
          /\ threw' = F
          /\ wire' = broadcastEvent(k.evts, wsClientsByRoom, sseClientsByRoom, subs, F)
          /\ outcome' = "none"
          /\ UNCHANGED <<connections, connectingPromises, upstream, pendingDisc,
                         wsClientsByRoom, sseClientsByRoom, subs, now>>

\* connection.on('error', ...)
UpstreamError(c) ==
  /\ Emitting(c)
  /\ LET evts == <<Envelope("error", upstream[c].room)>>
     IN \E F \in SUBSET Attempted(evts, wsClientsByRoom, sseClientsByRoom, subs) :
          /\ emitted' = evts
          /\ threw' = F
          /\ wire' = broadcastEvent(evts, wsClientsByRoom, sseClientsByRoom, subs, F)
          /\ outcome' = "none"
          /\ UNCHANGED <<connections, connectingPromises, recentChatKeysByRoom, upstream,
                         pendingDisc, wsClientsByRoom, sseClientsByRoom, subs, now>>

\* the wall clock advances between two macrotasks
Tick(d) ==
  /\ now + d <= StartTime + MaxElapsed
  /\ now' = now + d
  /\ outcome' = "none"
  /\ NoLog
  /\ UNCHANGED <<connections, connectingPromises, recentChatKeysByRoom, upstream,
                 pendingDisc, wsClientsByRoom, sseClientsByRoom, subs>>

\* ---------------------------------------------------------- specifications
Join == \E s \in Subs, r \in Rooms, o \in {"pending", "throws"} :
          SseOpen(s, r, o) \/ WsOpen(s, r, o)
Leave == \E s \in Subs : SseClose(s) \/ WsClose(s) \/ WsPeerClosing(s)
ConnectCalls == \E r \in Rooms, o \in {"pending", "throws"} : ControlConnect(r, o)
DisconnectCalls == \E r \in Rooms : ControlDisconnect(r)
ConnectSettles == \E r \in Rooms, ok \in BOOLEAN : ConnectSettle(r, ok)
DisconnectSettles == \E c \in Clients, ok \in BOOLEAN : DisconnectSettle(c, ok)
\* upstream events whose payload yields no dedup key
Events == \E c \in Clients : (\E type \in EventTypes : UpstreamEvent(c, type, NoKey))
                             \/ UpstreamError(c)
\* chat events whose payload yields a dedup key
KeyedChat == \E c \in Clients, key \in Keys : UpstreamEvent(c, "chat", key)

\* the whole server, at one instant of the clock
Next == Join \/ Leave \/ ConnectCalls \/ DisconnectCalls \/ ConnectSettles
        \/ DisconnectSettles \/ Events
Spec == Init /\ [][Next]_vars

\* rooms driven by their subscribers alone (no POST /connect, POST /disconnect)
NextSubs == Join \/ Leave \/ ConnectSettles \/ DisconnectSettles \/ Events
SpecSubs == Init /\ [][NextSubs]_vars

\* the manager and its dedup cache, with the clock running and nobody subscribed
NextDedup == ConnectCalls \/ ConnectSettles \/ Events \/ KeyedChat
             \/ (\E d \in TickSteps : Tick(d))
SpecDedup == Init /\ [][NextDedup]_vars

\* rooms driven by their subscribers, every connection.connect() succeeding
JoinPending == \E s \in Subs, r \in Rooms : SseOpen(s, r, "pending") \/ WsOpen(s, r, "pending")
ConnectSucceeds == \E r \in Rooms : ConnectSettle(r, TRUE)
NextNoFail == JoinPending \/ Leave \/ ConnectSucceeds \/ DisconnectSettles \/ Events
SpecNoFail == Init /\ [][NextNoFail]_vars

\* shouldEmitChat on its own, on maps that outgrow a cleanup scaled down to
\* SmallThreshold / SmallTarget entries
SmallMapChat(r, key) ==
  /\ LET d == shouldEmitChatAt(r, key, SmallThreshold, SmallTarget)
     IN /\ recentChatKeysByRoom' = d.cache
        /\ emitted' = IF d.ret THEN <<Envelope("chat", r)>> ELSE <<>>
  /\ wire' = Silent
  /\ threw' = {}
  /\ outcome' = "none"
  /\ UNCHANGED <<connections, connectingPromises, upstream, pendingDisc,
                 wsClientsByRoom, sseClientsByRoom, subs, now>>

NextEvict == (\E key \in EvictKeys : SmallMapChat(EvictRoom, key))
             \/ (\E d \in TickSteps : Tick(d))
SpecEvict == Init /\ [][NextEvict]_vars

\* -------------------------------------------------------------- properties
ClientsOf(r, states) == {c \in Clients : upstream[c].room = r /\ upstream[c].st \in states}
InFlight(r) == ClientsOf(r, {"connecting"})
Live(r) == ClientsOf(r, {"connected"})
\* the upstream clients of room r on which this step invokes connect()
Invoked(r) == {c \in Clients : /\ upstream[c].st = "free"
                               /\ upstream'[c].st \in {"connecting", "failed"}
                               /\ upstream'[c].room = r}
Joining(s, r) == subs[s].st = "none" /\ subs'[s].st # "none" /\ subs'[s].room = r
Attempting(r) == r \notin DOMAIN connections /\ r \in DOMAIN connectingPromises
                 /\ upstream[connectingPromises[r]].st = "connecting"
\* the step settles the pending attempt of room r
Settling(r) == Attempting(r) /\ r \notin DOMAIN connectingPromises'
\* subscriber s, resumed by this step, was handed a connect failure
SawFailure(s) == IF subs[s].kind = "sse" THEN "connect_failed" \in {wire'[s][i] : i \in 1..Len(wire'[s])}
                 ELSE subs'[s].st = "closing"

\* C1: connect(room) calls issued while the room has no active connection and an
\* attempt is still pending start no further upstream connect and await that
\* attempt; a room never has two attempts in flight; when the attempt settles every
\* waiting caller sees the attempt's own outcome.
C1_Coalesce ==
  [][\A r \in Rooms :
       /\ Attempting(r) => Invoked(r) = {}
       /\ Cardinality(InFlight(r))' <= 1
       /\ \A s \in Subs : Attempting(r) /\ Joining(s, r) => subs'[s].awaits = connectingPromises[r]
       /\ Settling(r) =>
            \A s \in Waiting(connectingPromises[r]) :
               subs[s].st = "open" => (SawFailure(s) <=> outcome' = "rejected")]_vars

\* C1 witness: two callers wait on one attempt
C1_TwoWaiters ==
  \E s, u \in Subs : /\ s # u
                     /\ subs[s].awaits # 0 /\ subs[s].awaits = subs[u].awaits
                     /\ subs[s].st = "open" /\ subs[u].st = "open"
                     /\ Cardinality({c \in Clients : upstream[c].st # "free"}) = 1

\* C2: every room has at most one live upstream client (connect succeeded, disconnect
\* never invoked on it).
C2_AtMostOneLive == \A r \in Rooms : Cardinality(Live(r)) <= 1

\* C3: a subscriber join on a room that is neither connecting nor connected (the
\* first join) invokes the upstream connect exactly once; a join on a room that is
\* connecting or connected invokes none.
C3_JoinConnects ==
  [][\A r \in Rooms, s \in Subs :
       Joining(s, r) =>
         Cardinality(Invoked(r)) =
           IF r \in DOMAIN connections \/ r \in DOMAIN connectingPromises THEN 0 ELSE 1]_vars

\* C3 witness: a second subscriber joined a connected room, served by the one client
C3_SecondJoinNoConnect ==
  \E s, u \in Subs, r \in Rooms :
     /\ s # u /\ subs[s].st = "open" /\ subs[u].st = "open"
     /\ subs[s].room = r /\ subs[u].room = r
     /\ r \in DOMAIN connections
     /\ outcome = "resolved" /\ wire[u] = <<":ok">>
     /\ Cardinality({c \in Clients : upstream[c].st # "free"}) = 1

Registered(r) == Members(wsClientsByRoom, r) \cup Members(sseClientsByRoom, r)
\* nothing of room r is suspended: no attempt in flight, no disconnect() call pending
Quiescent(r) == /\ r \notin DOMAIN connectingPromises
                /\ \A c \in Clients : upstream[c].room = r => pendingDisc[c] = 0
Items(q) == {q[i] : i \in 1..Len(q)}
ErrorTyped(q) == {i \in 1..Len(q) : q[i] \in {"error", "connect_failed"}}

\* C4: once the last subscriber of a room has left (both registries hold nobody for
\* it) and everything pending has settled, the room has no active upstream connection.
C4_EmptyRoomDisconnected ==
  \A r \in Rooms : Registered(r) = {} /\ Quiescent(r) => r \notin DOMAIN connections

\* C5: when a connect attempt of a room has just failed, the room has neither an
\* in-flight marker nor an active record.
C5_FailureLeavesIdle ==
  \A r \in Rooms :
     outcome = "rejected" /\ emitted # <<>> /\ emitted[1] = Envelope("error", r)
       => r \notin DOMAIN connectingPromises /\ r \notin DOMAIN connections

\* C6: when a disconnect() call suspended on the upstream disconnect settles, with
\* the upstream disconnect succeeding or failing, the room's active record is gone
\* and a `disconnected` envelope of the room was emitted; the call ends resolved or
\* rejected accordingly.
C6_DisconnectCleansUp ==
  [][\A c \in Clients :
       pendingDisc'[c] < pendingDisc[c] =>
         /\ upstream[c].room \notin DOMAIN connections'
         /\ emitted' = <<[type |-> "disconnected", room |-> upstream[c].room,
                          timestamp |-> now]>>
         /\ outcome' \in {"resolved", "rejected"}]_vars

\* C6 witness: a disconnect() whose upstream disconnect failed has settled, the record gone
C6_FailedDisconnectSettled ==
  \E r \in Rooms : /\ outcome = "rejected"
                   /\ emitted # <<>> /\ emitted[1].type = "disconnected" /\ emitted[1].room = r
                   /\ r \notin DOMAIN connections

\* C7: when the pending connect attempt of a room fails (and no delivery throws),
\* every open subscriber waiting for it is written exactly one error-typed message.
C7_OneErrorPerFailure ==
  [][\A r \in Rooms :
       Settling(r) /\ outcome' = "rejected" /\ threw' = {} =>
         \A s \in Waiting(connectingPromises[r]) :
            subs[s].st = "open" => Cardinality(ErrorTyped(wire'[s])) = 1]_vars

LastSeen(cache, r, k) ==
  IF r \in DOMAIN cache /\ \E i \in 1..Len(cache[r]) : cache[r][i].key = k
  THEN (CHOOSE e \in Items(cache[r]) : e.key = k).ts
  ELSE 0
\* the room's map holds the key, last seen less than 120000 ms ago
InWindow(r, k) == LastSeen(recentChatKeysByRoom, r, k) # 0
                  /\ now - LastSeen(recentChatKeysByRoom, r, k) < 120000

\* C8: shouldEmitChat(room, key) returns false iff the room's own map holds the key
\* with now - lastSeenAt < 120000, and then changes no lastSeenAt; otherwise it sets
\* that key's lastSeenAt to now, touches no other entry and returns true. The chat
\* event is broadcast exactly when it returns true.
C8_DedupRule ==
  \A r \in Rooms, k \in Keys :
     LET d == shouldEmitChat(r, k)
         same(q, j) == LastSeen(d.cache, q, j) = LastSeen(recentChatKeysByRoom, q, j)
     IN /\ d.ret = ~InWindow(r, k)
        /\ InWindow(r, k) => \A q \in Rooms, j \in Keys : same(q, j)
        /\ ~InWindow(r, k) =>
             /\ LastSeen(d.cache, r, k) = now
             /\ \A q \in Rooms, j \in Keys : <<q, j>> # <<r, k>> => same(q, j)
        /\ relay(r, "chat", k).evts = IF InWindow(r, k) THEN <<>>
                                      ELSE <<[type |-> "chat", room |-> r, timestamp |-> now]>>
        /\ relay(r, "chat", k).cache = d.cache

\* C8 witness: a key seen in one room 119 s ago (still suppressed there) was emitted
\* just now in the other room
C8_SameKeyTwoRooms ==
  \E k \in Keys, r, q \in Rooms :
     /\ r # q
     /\ now - LastSeen(recentChatKeysByRoom, r, k) = 119000
     /\ LastSeen(recentChatKeysByRoom, q, k) = now
     /\ emitted = <<[type |-> "chat", room |-> q, timestamp |-> now]>>
     /\ ~shouldEmitChat(r, k).ret

\* C9: a subscriber that joined without an `events` selector is written, of the
\* upstream event types, only chat events.
C9_DefaultFilterChatOnly ==
  \A s \in Subs : \A m \in Items(wire[s]) : m \in EventTypes => m = "chat"

\* C10: in the fan-out of an envelope every subscriber registered for its room whose
\* endpoint is open and whose send did not throw is written the envelope, whoever
\* else's send threw; a subscriber whose send threw stays registered; and relaying an
\* upstream event changes neither the connection state nor the registries.
C10_FanoutIsolation ==
  [][emitted' # <<>> =>
       LET e == emitted'[1]
           reg == Members(wsClientsByRoom', e.room) \cup Members(sseClientsByRoom', e.room)
       IN /\ \A s \in reg \ threw' :
               (subs'[s].kind = "sse" \/ subs[s].st = "open" \/ Joining(s, e.room))
                 => e.type \in Items(wire'[s])
          /\ \A s \in threw' : s \in reg /\ e.type \notin Items(wire'[s])
          /\ outcome' = "none" =>
               UNCHANGED <<connections, connectingPromises, upstream, pendingDisc,
                           wsClientsByRoom, sseClientsByRoom, subs>>]_vars

\* C10 witness: one subscriber's send threw and another subscriber of the room got
\* the envelope
C10_OthersStillReceive ==
  \E s, u \in Subs :
     /\ s \in threw /\ u \notin threw /\ emitted # <<>>
     /\ {s, u} \subseteq Registered(emitted[1].room)
     /\ wire[s] = <<>> /\ wire[u] = <<emitted[1].type>>

\* the envelopes among the messages written to one subscriber (":ok" and the
\* handler's own connect_failed message are not envelopes)
Envelopes(q) == SelectSeq(q, LAMBDA m : m \notin {":ok", "connect_failed"})

\* C11: a turn of the event loop produces at most one envelope and its fan-out is
\* complete within that turn: every subscriber written an envelope is written
\* exactly the one produced in this turn, once, and every registered open
\* subscriber whose send did not throw is written it in this same turn, so all
\* subscribers of a room are written the room's envelopes in the one order in
\* which they were produced.
C11_FanoutInOrder ==
  [][/\ Len(emitted') <= 1
     /\ \A s \in Subs :
          Envelopes(wire'[s]) # <<>> =>
             emitted' # <<>> /\ Envelopes(wire'[s]) = <<emitted'[1].type>>
     /\ emitted' # <<>> =>
          \A s \in (Members(wsClientsByRoom', emitted'[1].room)
                    \cup Members(sseClientsByRoom', emitted'[1].room)) \ threw' :
             (subs'[s].kind = "sse" \/ (subs[s].st = "open" /\ subs[s].kind = "ws"))
               => Envelopes(wire'[s]) = <<emitted'[1].type>>]_vars

\* C11 witness: a socket and an SSE client of one room were both written the chat
\* envelope produced in the last turn
C11_BothTransportsSameTurn ==
  \E s, u \in Subs :
     /\ subs[s].kind = "ws" /\ subs[u].kind = "sse" /\ subs[s].room = subs[u].room
     /\ emitted # <<>> /\ emitted[1].type = "chat" /\ emitted[1].room = subs[s].room
     /\ wire[s] = <<"chat">> /\ wire[u] = <<"chat">>

\* C12: between two turns of the event loop no room has both an active record and
\* an in-flight attempt.
C12_RecordXorAttempt ==
  \A r \in Rooms : ~(r \in DOMAIN connections /\ r \in DOMAIN connectingPromises)

\* C12 witness: the attempt of one room has just succeeded, its marker gone and its
\* record set, while the other room is still attempting
C12_OneSettledOneAttempting ==
  \E r, q \in Rooms :
     /\ r \in DOMAIN connections /\ r \notin DOMAIN connectingPromises
     /\ outcome = "resolved" /\ upstream[connections[r]].st = "connected"
     /\ q \in DOMAIN connectingPromises /\ q \notin DOMAIN connections

\* C13: disconnect(room) on a room without an active record changes nothing: the
\* call itself invokes no upstream disconnect, and the turn in which the last
\* subscriber of such a room leaves resolves at once, produces no envelope and
\* leaves the records, the attempts, the upstream clients and the dedup cache as
\* they were.
C13_DisconnectWithoutRecord ==
  [][\A r \in Rooms :
       r \notin DOMAIN connections =>
         /\ disconnect(r) = [up |-> upstream, pend |-> pendingDisc]
         /\ (Registered(r) # {} /\ Members(wsClientsByRoom', r) = {}
                                /\ Members(sseClientsByRoom', r) = {}) =>
              /\ outcome' = "resolved"
              /\ emitted' = <<>>
              /\ UNCHANGED <<connections, connectingPromises, upstream, pendingDisc,
                             recentChatKeysByRoom>>]_vars

\* C13 witness: the last subscriber of a room has left while the room's attempt is
\* still in flight, and nothing was asked of the upstream client
C13_LeftWhileConnecting ==
  \E s \in Subs :
     /\ subs[s].st = "gone" /\ Registered(subs[s].room) = {}
     /\ subs[s].room \in DOMAIN connectingPromises
     /\ upstream[connectingPromises[subs[s].room]].st = "connecting"
     /\ pendingDisc[connectingPromises[subs[s].room]] = 0
     /\ outcome = "resolved"

\* C14: an upstream event of a room that has no active record produces no
\* envelope: whenever the last turn relayed an upstream event, its room has an
\* active record.
C14_NoRecordNoEnvelope ==
  (emitted # <<>> /\ emitted[1].type \in EventTypes) =>
     emitted[1].room \in DOMAIN connections

\* C15: relaying an event that is not a chat, or a chat whose payload yields no
\* key, produces its envelope whatever the dedup cache holds and leaves the cache
\* as it was.
C15_OnlyKeyedChatDeduped ==
  \A r \in Rooms, type \in EventTypes, key \in Keys \cup {NoKey} :
     (type # "chat" \/ key = NoKey) =>
        relay(r, type, key) = [cache |-> recentChatKeysByRoom,
                               evts |-> <<Envelope(type, r)>>]

\* C15 witness: a gift of a room was relayed in the last turn while a chat key of
\* that room is inside its suppression window
C15_GiftRelayedBesideFreshKey ==
  \E r \in Rooms, k \in Keys :
     /\ InWindow(r, k)
     /\ emitted = <<[type |-> "gift", room |-> r, timestamp |-> now]>>
     /\ ~shouldEmitChat(r, k).ret
     /\ relay(r, "chat", NoKey).evts # <<>>

\* C16: getStatus() lists exactly the rooms with a live upstream connection: a room
\* whose upstream client has connected and on which no disconnect was invoked is
\* listed, and every listed room is recorded with a client that has connected (a
\* room with only an attempt in flight is not listed).
C16_StatusListsLiveRooms ==
  \A r \in Rooms :
     /\ Live(r) # {} => r \in getStatus
     /\ r \in getStatus => upstream[connections[r]].st \in {"connected", "disconnecting"}
     /\ (InFlight(r) # {} /\ ClientsOf(r, {"connected", "disconnecting"}) = {})
           => r \notin getStatus

\* C17: when no connect attempt fails, a room with an open registered subscriber
\* and nothing pending (no attempt in flight, no disconnect() call suspended) has
\* an active upstream connection, also when that subscriber joined while a
\* disconnect of the room was in flight.
C17_SubscribedRoomHasUpstream ==
  \A r \in Rooms :
     ((\E s \in Registered(r) : subs[s].st = "open") /\ Quiescent(r))
        => r \in DOMAIN connections

\* C18: the cleanup of shouldEmitChat runs only in a call that is not suppressed
\* and leaves the room's map above the threshold; it removes only entries of age
\* >= TTL, in insertion order, and stops once the size is down to the target or the
\* scan has ended; every entry younger than the TTL is kept, so a duplicate inside
\* the window stays suppressed.
C18_EvictionRule ==
  \A k \in EvictKeys :
     LET map == IF EvictRoom \in DOMAIN recentChatKeysByRoom
                THEN recentChatKeysByRoom[EvictRoom] ELSE <<>>
         d == shouldEmitChatAt(EvictRoom, k, SmallThreshold, SmallTarget)
         out == d.cache[EvictRoom]
         i == IndexOf(map, k)
         set == IF i # 0 THEN [map EXCEPT ![i].ts = now]
                ELSE Append(map, [key |-> k, ts |-> now])
         expired(e) == now - e.ts >= ttlMs
         gone(e) == e \notin Items(out)
     IN /\ ~d.ret => out = map
        /\ d.ret =>
             /\ out = SelectSeq(set, LAMBDA e : ~gone(e))
             /\ Len(set) <= SmallThreshold => out = set
             /\ \A e \in Items(set) : gone(e) => expired(e)
             /\ Len(set) > SmallThreshold =>
                  /\ Len(out) >= SmallTarget
                  /\ Len(out) > SmallTarget => \A e \in Items(out) : ~expired(e)
                  /\ \A a, b \in 1..Len(set) :
                        (a < b /\ gone(set[b]) /\ expired(set[a])) => gone(set[a])
             /\ \A e \in Items(set) :
                  ~expired(e) =>
                     \E j \in 1..Len(out) : out[j] = e /\ now - out[j].ts < ttlMs

\* C18 witness: a call on a full map whose cleanup removes expired entries, stops at
\* the target and so leaves an expired entry behind
C18_ScanStopsAtTarget ==
  \E k \in EvictKeys :
     LET d == shouldEmitChatAt(EvictRoom, k, SmallThreshold, SmallTarget)
     IN /\ EvictRoom \in DOMAIN recentChatKeysByRoom
        /\ Len(recentChatKeysByRoom[EvictRoom]) = SmallThreshold
        /\ d.ret
        /\ Len(d.cache[EvictRoom]) = SmallTarget
        /\ \E e \in Items(d.cache[EvictRoom]) : now - e.ts >= ttlMs
        /\ \E e \in Items(d.cache[EvictRoom]) : e.key = k /\ e.ts = now

\* C19: the envelope of a turn is written only to subscribers registered under the
\* envelope's room when it is fanned out, and to every one of them whose endpoint
\* is open and takes the write; a subscriber of another room is written no
\* envelope.
C19_RoomScopedDelivery ==
  [][emitted' # <<>> =>
       LET e == emitted'[1]
           reg == Members(wsClientsByRoom', e.room) \cup Members(sseClientsByRoom', e.room)
       IN /\ \A s \in Subs :
               Envelopes(wire'[s]) # <<>> => s \in reg /\ subs'[s].room = e.room
          /\ \A q \in Rooms \ {e.room} :
               \A s \in Members(wsClientsByRoom', q) \cup Members(sseClientsByRoom', q) :
                  Envelopes(wire'[s]) = <<>>
          /\ \A s \in reg \ threw' :
               (subs'[s].kind = "sse" \/ subs[s].st = "open" \/ Joining(s, e.room))
                  => Envelopes(wire'[s]) # <<>>]_vars

\* C19 witness: with an open subscriber in each of two rooms, the envelope of one
\* room was written to its own subscriber and not to the other room's
C19_OtherRoomNotWritten ==
  \E s, u \in Subs :
     /\ subs[s].st = "open" /\ subs[u].st = "open" /\ subs[s].room # subs[u].room
     /\ s \in Registered(subs[s].room) /\ u \in Registered(subs[u].room)
     /\ emitted # <<>> /\ emitted[1].room = subs[s].room /\ emitted[1].type \in EventTypes
     /\ wire[s] = <<emitted[1].type>> /\ wire[u] = <<>>

\* the registry of a subscriber's own transport
OwnRegistry(s) == IF subs[s].kind = "ws" THEN wsClientsByRoom ELSE sseClientsByRoom
\* the subscriber's connection has been opened and its close event has not fired
Connected(s) == subs[s].st \in {"open", "closing"}
RegistriesExact ==
  /\ \A s \in Subs, r \in Rooms :
        /\ s \in Members(OwnRegistry(s), r) <=> (Connected(s) /\ subs[s].room = r)
        /\ s \in Members(wsClientsByRoom, r) => subs[s].kind = "ws"
        /\ s \in Members(sseClientsByRoom, r) => subs[s].kind = "sse"
  /\ \A r \in Rooms :
        /\ r \in DOMAIN wsClientsByRoom <=> \E s \in Subs : s \in Members(wsClientsByRoom, r)
        /\ r \in DOMAIN sseClientsByRoom <=> \E s \in Subs : s \in Members(sseClientsByRoom, r)

\* C20: a subscriber is in its room's registry of its transport exactly while its
\* connection is open (until its close event), a room key is in a registry map
\* exactly while the room has a subscriber of that transport, and an entry leaves
\* the registry only in the turn of its own subscriber's close event, which does
\* not run again for that subscription.
C20_RegistryCleanup ==
  [][/\ RegistriesExact
     /\ RegistriesExact'
     /\ \A s \in Subs, r \in Rooms :
          (s \in Members(wsClientsByRoom, r) \cup Members(sseClientsByRoom, r)
             /\ s \notin Members(wsClientsByRoom', r) \cup Members(sseClientsByRoom', r))
            => /\ Connected(s)
               /\ subs'[s].st \in {"none", "gone"}
               /\ \A u \in Subs \ {s} : subs'[u] = subs[u]]_vars

\* C20 witness: a socket the server closed after a failed connect is still in its
\* room's registry, waiting for its close event, while that room has no SSE key
C20_ServerClosedStillRegistered ==
  \E s \in Subs :
     /\ subs[s].kind = "ws" /\ subs[s].st = "closing" /\ outcome = "rejected"
     /\ s \in Members(wsClientsByRoom, subs[s].room)
     /\ subs[s].room \notin DOMAIN sseClientsByRoom
     /\ subs[s].room \notin DOMAIN connections

====
